---- MODULE Spec2Model ----
(***************************************************************************)
(* Model of main.py of tali-calendar-reminder-bot: one run of main(), the  *)
(* secret-file check, the calendar authentication, the "tomorrow" window,  *)
(* the per-event filter and the webhook notification.                      *)
(*                                                                         *)
(* Conventions.  A Python value that may be None is a sequence of length   *)
(* 0 (None) or 1 (<<value>>).  A Python str that the code inspects         *)
(* character by character is a sequence of one-character strings.  A dict  *)
(* is a function whose DOMAIN is the set of keys present.                  *)
(***************************************************************************)
EXTENDS Integers, Sequences, FiniteSets, TLC

VARIABLES
    WEBHOOK_URL,  \* os.environ.get("MACRODROID_WEBHOOK_URL"): None, "" or a URL
    tokenFile,    \* state of token.json on disk
    credsFile,    \* state of credentials.json on disk
    tokenCreds,   \* what Credentials.from_authorized_user_file yields for a JSON object
    calendar,     \* the events the calendar holds in the queried window
    utc_now,      \* the UTC instant the run reads from the clock
    pc,           \* position of main()
    reports,      \* what check_files_integrity printed, one entry per file reached
    creds,        \* local creds of get_calendar_service
    service,      \* local service of main(): TRUE when a handle was returned
    window,       \* (time_min, time_max) of main()
    events,       \* local events of main()
    idx,          \* position of the for loop in events (1-based)
    trace,        \* external calls made so far, in order
    calls,        \* webhook requests made so far, in order
    exc,          \* exception that reached main()'s handler ("none" when none)
    text,         \* argument of a direct call of extract_phone_number
    phone         \* its result

vars == <<WEBHOOK_URL, tokenFile, credsFile, tokenCreds, calendar, utc_now, pc,
          reports, creds, service, window, events, idx, trace, calls, exc,
          text, phone>>

None == <<>>
Some(v) == <<v>>

(***************************************************************************)
(* Bounds of the model.                                                    *)
(***************************************************************************)
MaxEvents == 2
MaxTokens == 5

(***************************************************************************)
(* Characters and numbers.                                                 *)
(***************************************************************************)
Digits == <<"0", "1", "2", "3", "4", "5", "6", "7", "8", "9">>

IsDigit(c) == \E i \in 1..Len(Digits) : Digits[i] = c

DigitVal(c) == (CHOOSE i \in 1..Len(Digits) : Digits[i] = c) - 1

AllDigits(s) == \A i \in 1..Len(s) : IsDigit(s[i])

RECURSIVE ParseInt(_)
ParseInt(s) ==
    IF s = <<>> THEN 0
    ELSE 10 * ParseInt(SubSeq(s, 1, Len(s) - 1)) + DigitVal(s[Len(s)])

\* "%0<w>d" % n
RECURSIVE ZeroPad(_, _)
ZeroPad(n, w) ==
    IF w = 0 THEN <<>>
    ELSE Append(ZeroPad(n \div 10, w - 1), Digits[(n % 10) + 1])

RECURSIVE Flatten(_)
Flatten(ss) == IF ss = <<>> THEN <<>> ELSE Head(ss) \o Flatten(Tail(ss))

(***************************************************************************)
(* extract_phone_number: re.search(r'(05\d-?\d{7})', text).                *)
(***************************************************************************)
Lit(c) == [kind |-> "lit", ch |-> c]
AnyDigit == [kind |-> "digit", ch |-> ""]
Opt(c) == [kind |-> "opt", ch |-> c]

\* r'(05\d-?\d{7})' with the hyphen made mandatory
PhonePatternHyphenRequired ==
    <<Lit("0"), Lit("5"), AnyDigit, Lit("-"),
      AnyDigit, AnyDigit, AnyDigit, AnyDigit, AnyDigit, AnyDigit, AnyDigit>>

\* r'(05\d-?\d{7})'
PhonePattern ==
    <<Lit("0"), Lit("5"), AnyDigit, Opt("-"),
      AnyDigit, AnyDigit, AnyDigit, AnyDigit, AnyDigit, AnyDigit, AnyDigit>>

\* Backtracking match of pat[k..] against s starting at position pos: the
\* position after the match, or 0 when there is none.  A greedy optional
\* element is tried present first, then absent.
RECURSIVE MatchFrom(_, _, _, _)
MatchFrom(s, pos, pat, k) ==
    IF k > Len(pat) THEN pos
    ELSE LET e == pat[k]
             here == pos <= Len(s)
         IN CASE e.kind = "lit" ->
                    IF here /\ s[pos] = e.ch
                    THEN MatchFrom(s, pos + 1, pat, k + 1) ELSE 0
              [] e.kind = "digit" ->
                    IF here /\ IsDigit(s[pos])
                    THEN MatchFrom(s, pos + 1, pat, k + 1) ELSE 0
              [] e.kind = "opt" ->
                    LET with == IF here /\ s[pos] = e.ch
                                THEN MatchFrom(s, pos + 1, pat, k + 1) ELSE 0
                    IN IF with # 0 THEN with
                       ELSE MatchFrom(s, pos, pat, k + 1)

\* re.search: the match at the smallest start position, None when no
\* position matches.
RECURSIVE SearchFrom(_, _, _)
SearchFrom(s, pat, start) ==
    IF start > Len(s) THEN None
    ELSE LET stop == MatchFrom(s, start, pat, 1)
         IN IF stop # 0 THEN Some(SubSeq(s, start, stop - 1))
            ELSE SearchFrom(s, pat, start + 1)

re_search(pat, s) == SearchFrom(s, pat, 1)

\* text is None or Some(chars); the result is None or Some(match.group(1)).
extract_phone_number(t) ==
    IF t = None \/ t[1] = <<>> THEN None
    ELSE re_search(PhonePattern, t[1])

(***************************************************************************)
(* datetime arithmetic as the standard library does it (proleptic          *)
(* Gregorian ordinals), used by get_tomorrow_range.                        *)
(***************************************************************************)
is_leap(y) == y % 4 = 0 /\ (y % 100 # 0 \/ y % 400 = 0)

DAYS_IN_MONTH == <<31, 28, 31, 30, 31, 30, 31, 31, 30, 31, 30, 31>>

DAYS_BEFORE_MONTH == <<0, 31, 59, 90, 120, 151, 181, 212, 243, 273, 304, 334>>

days_in_month(y, m) == IF m = 2 /\ is_leap(y) THEN 29 ELSE DAYS_IN_MONTH[m]

days_before_year(y) ==
    LET p == y - 1 IN p * 365 + p \div 4 - p \div 100 + p \div 400

days_before_month(y, m) ==
    DAYS_BEFORE_MONTH[m] + (IF m > 2 /\ is_leap(y) THEN 1 ELSE 0)

ymd2ord(d) == days_before_year(d.year) + days_before_month(d.year, d.month) + d.day

ord2ymd(ordinal) ==
    LET n0   == ordinal - 1
        n400 == n0 \div 146097
        r400 == n0 % 146097
        n100 == r400 \div 36524
        r100 == r400 % 36524
        n4   == r100 \div 1461
        r4   == r100 % 1461
        n1   == r4 \div 365
        n    == r4 % 365
        year == n400 * 400 + 1 + n100 * 100 + n4 * 4 + n1
        leapyear == n1 = 3 /\ (n4 # 24 \/ n100 = 3)
        m0   == (n + 50) \div 32
        pre0 == DAYS_BEFORE_MONTH[m0] + (IF m0 > 2 /\ leapyear THEN 1 ELSE 0)
        month == IF pre0 > n THEN m0 - 1 ELSE m0
        pre  == IF pre0 > n
                THEN pre0 - (DAYS_IN_MONTH[month]
                             + (IF month = 2 /\ leapyear THEN 1 ELSE 0))
                ELSE pre0
    IN IF n1 = 4 \/ n100 = 4
       THEN [year |-> year - 1, month |-> 12, day |-> 31]
       ELSE [year |-> year, month |-> month, day |-> n - pre + 1]

\* datetime + timedelta(hours=h): days and seconds are summed and normalised
datetime_add_hours(dt, h) ==
    LET secs == dt.hour * 3600 + dt.minute * 60 + dt.second + h * 3600
        days == ymd2ord(dt) + secs \div 86400
        rem  == secs % 86400
        ymd  == ord2ymd(days)
    IN [year |-> ymd.year, month |-> ymd.month, day |-> ymd.day,
        hour |-> rem \div 3600, minute |-> (rem % 3600) \div 60,
        second |-> rem % 60]

\* datetime.date()
date_of(dt) == [year |-> dt.year, month |-> dt.month, day |-> dt.day]

\* date + timedelta(days=n)
date_add_days(d, n) == ord2ymd(ymd2ord(d) + n)

\* str(date): "%04d-%02d-%02d"
date_str(d) ==
    ZeroPad(d.year, 4) \o <<"-">> \o ZeroPad(d.month, 2) \o <<"-">>
        \o ZeroPad(d.day, 2)

\* israel_time computed without the two-hour shift
israel_time_unshifted(now) == datetime_add_hours(now, 0)

\* israel_time = utc_now + datetime.timedelta(hours=2)
israel_time(now) == datetime_add_hours(now, 2)

\* get_tomorrow_range() reading the clock at instant now
get_tomorrow_range(now) ==
    LET today_date == date_of(israel_time(now))
        tomorrow   == date_add_days(today_date, 1)
    IN [time_min |-> date_str(tomorrow)
                       \o <<"T", "0", "0", ":", "0", "0", ":", "0", "0", "Z">>,
        time_max |-> date_str(tomorrow)
                       \o <<"T", "2", "3", ":", "5", "9", ":", "5", "9", "Z">>]

(***************************************************************************)
(* datetime.fromisoformat and strftime('%H:%M'), as used on an event's     *)
(* start.dateTime: YYYY-MM-DD, one separator character, HH:MM[:SS], and an *)
(* optional +HH:MM or -HH:MM offset.  The result is None when the library  *)
(* raises ValueError.                                                      *)
(***************************************************************************)
ValidOffset(s) ==
    \/ s = <<>>
    \/ /\ Len(s) = 6
       /\ s[1] \in {"+", "-"}
       /\ IsDigit(s[2]) /\ IsDigit(s[3]) /\ s[4] = ":"
       /\ IsDigit(s[5]) /\ IsDigit(s[6])
       /\ ParseInt(SubSeq(s, 2, 3)) < 24
       /\ ParseInt(SubSeq(s, 5, 6)) < 60

fromisoformat(s) ==
    IF /\ Len(s) >= 16
       /\ AllDigits(SubSeq(s, 1, 4)) /\ s[5] = "-"
       /\ AllDigits(SubSeq(s, 6, 7)) /\ s[8] = "-"
       /\ AllDigits(SubSeq(s, 9, 10))
       /\ AllDigits(SubSeq(s, 12, 13)) /\ s[14] = ":"
       /\ AllDigits(SubSeq(s, 15, 16))
    THEN LET y  == ParseInt(SubSeq(s, 1, 4))
             mo == ParseInt(SubSeq(s, 6, 7))
             d  == ParseInt(SubSeq(s, 9, 10))
             h  == ParseInt(SubSeq(s, 12, 13))
             mi == ParseInt(SubSeq(s, 15, 16))
             hasSec == Len(s) >= 19 /\ s[17] = ":"
                       /\ AllDigits(SubSeq(s, 18, 19))
             sec == IF hasSec THEN ParseInt(SubSeq(s, 18, 19)) ELSE 0
             rest == IF hasSec THEN SubSeq(s, 20, Len(s))
                     ELSE SubSeq(s, 17, Len(s))
         IN IF /\ y >= 1 /\ mo \in 1..12
               /\ d >= 1 /\ d <= days_in_month(y, mo)
               /\ h < 24 /\ mi < 60 /\ sec < 60
               /\ ValidOffset(rest)
            THEN Some([year |-> y, month |-> mo, day |-> d, hour |-> h,
                       minute |-> mi, second |-> sec])
            ELSE None
    ELSE None

\* dt.strftime('%H:%M')
strftime_HM(dt) == ZeroPad(dt.hour, 2) \o <<":">> \o ZeroPad(dt.minute, 2)

(***************************************************************************)
(* Configuration and the run's environment.                                *)
(***************************************************************************)
TARGET_COLOR_ID == "1"

\* bool(x) of an Optional[str] held as a TLA+ string
Truthy(o) == o # None /\ o[1] # ""

\* bool(x) of an Optional[str] held as a sequence of characters
TruthyChars(o) == o # None /\ o[1] # <<>>

\* dict.get(k) and dict.get(k, default)
DictGet(d, k) == IF k \in DOMAIN d THEN Some(d[k]) ELSE None

DictGetOr(d, k, default) == IF k \in DOMAIN d THEN d[k] ELSE default

RECURSIVE SeqsUpTo(_, _)
SeqsUpTo(S, n) ==
    IF n = 0 THEN {<<>>}
    ELSE LET shorter == SeqsUpTo(S, n - 1)
         IN shorter \cup {Append(q, x) : q \in {r \in shorter : Len(r) = n - 1}, x \in S}

WebhookUrls == {None, Some(""), Some("https://trigger.macrodroid.com/hook")}

\* A secret file: missing, zero bytes, not JSON, a JSON object, or JSON that
\* is not an object.
FileStates == {"missing", "empty", "garbage", "object", "list", "number"}

\* Credentials as the code reads them: valid, expired, refresh_token.
\* valid is "has a token and is not expired", so valid excludes expired.
CredentialStates ==
    {c \in [valid : BOOLEAN, expired : BOOLEAN, refresh_token : BOOLEAN] :
        ~(c.valid /\ c.expired)}

\* A JSON object in token.json either lacks the fields of an authorized
\* user (the loader raises) or yields credentials.
TokenContents == {None} \cup {Some(c) : c \in CredentialStates}

NowSamples ==
    {[year |-> 2026, month |-> 11, day |-> 2, hour |-> 21, minute |-> 59, second |-> 59],
     [year |-> 2026, month |-> 12, day |-> 31, hour |-> 22, minute |-> 0, second |-> 0]}

DescDana ==
    <<"t", "e", "l", " ", "0", "5", "2", "-", "7", "6", "5", "4",
      "3", "2", "1">>

DescNoa ==
    <<"0", "5", "2", "1", "2", "3", "4", "5", "6", "7", " ", "t",
      "h", "a", "n", "k", "s">>

DescNoPhone ==
    <<"n", "o", " ", "n", "u", "m", "b", "e", "r", " ", "h", "e",
      "r", "e">>

StartAllDay == [date |-> <<"2", "0", "2", "6", "-", "1", "1", "-", "0", "3">>]

StartAt(hhmm) ==
    [dateTime |-> <<"2", "0", "2", "6", "-", "1", "1", "-", "0", "3", "T">>
                    \o hhmm \o <<":", "0", "0", "+", "0", "2", ":", "0", "0">>]

EventBase == [kind |-> "calendar#event"]

\* title, description and the HH:MM of a timed start go together: a titled
\* event with a hyphenated number, an untitled one with a plain number, a
\* titled one without description
EventBodies ==
    {[fields |-> EventBase @@ [summary |-> "Dana", description |-> DescDana],
      hhmm |-> <<"1", "4", ":", "3", "0">>],
     [fields |-> EventBase @@ [description |-> DescNoa],
      hhmm |-> <<"0", "9", ":", "0", "5">>],
     [fields |-> EventBase @@ [summary |-> "Gil"],
      hhmm |-> <<"0", "0", ":", "0", "0">>]}

ColorOptions == {<<>>, [colorId |-> "1"], [colorId |-> "2"]}

\* an all-day start, a timed start, a timed start the parser rejects (hour 25)
StartOptions(hhmm) ==
    {StartAllDay, StartAt(hhmm), StartAt(<<"2", "5", ":", "3", "0">>)}

EventPool ==
    UNION {{b.fields @@ c @@ [start |-> st] :
               c \in ColorOptions, st \in StartOptions(b.hhmm)} :
           b \in EventBodies}

\* the four events of the runs that vary the configuration and the secrets
SmallEventPool ==
    {EventBase @@ [summary |-> "Dana", description |-> DescDana,
                   colorId |-> "1", start |-> StartAt(<<"1", "4", ":", "3", "0">>)],
     EventBase @@ [summary |-> "Noa", description |-> DescNoa,
                   colorId |-> "2", start |-> StartAt(<<"0", "9", ":", "0", "5">>)],
     EventBase @@ [summary |-> "Dana", description |-> DescDana,
                   start |-> StartAt(<<"2", "5", ":", "3", "0">>)],
     EventBase @@ [summary |-> "Gil", description |-> DescNoPhone,
                   start |-> StartAllDay]}


(***************************************************************************)
(* check_files_integrity.                                                  *)
(***************************************************************************)
\* What the loop body does for one file: a line it prints, or "raise" when
\* json.load returns a value without keys() and the f-string raises
\* AttributeError, which the except clause for JSONDecodeError lets through.
FileReport(state) ==
    CASE state = "missing" -> "does not exist"
      [] state = "empty"   -> "is empty"
      [] state = "garbage" -> "invalid JSON"
      [] state = "object"  -> "valid JSON"
      [] OTHER             -> "raise"

\* The for loop over ['token.json', 'credentials.json']: the lines printed
\* and whether an exception left the function.
RECURSIVE check_files_integrity(_)
check_files_integrity(files) ==
    IF files = <<>> THEN [printed |-> <<>>, raised |-> FALSE]
    ELSE LET r == FileReport(Head(files))
         IN IF r = "raise" THEN [printed |-> <<>>, raised |-> TRUE]
            ELSE LET rest == check_files_integrity(Tail(files))
                 IN [printed |-> <<r>> \o rest.printed, raised |-> rest.raised]

(***************************************************************************)
(* get_calendar_service.                                                   *)
(***************************************************************************)
\* Lines 50-55: creds stays None when token.json is missing or when
\* Credentials.from_authorized_user_file raises (caught and printed).
load_token(file, contents) ==
    IF file = "object" THEN contents ELSE None

\* line 57 without the test for None
needs_auth_when_loaded(c) == c # None /\ ~c[1].valid

\* line 57: not creds or not creds.valid
needs_auth(c) == c = None \/ ~c[1].valid

\* line 58: creds and creds.expired and creds.refresh_token
refreshable(c) == c # None /\ c[1].expired /\ c[1].refresh_token

ExtCall(name, ok) == [call |-> name, ok |-> ok]

\* creds.refresh(Request()) succeeded: the token is fresh
refreshed(c) == Some([c[1] EXCEPT !.valid = TRUE, !.expired = FALSE])

\* lines 70-76
build_service(c, buildOk) ==
    [creds |-> c, service |-> buildOk, made |-> <<ExtCall("build", buildOk)>>]

\* get_calendar_service with the return after a failed refresh left out
get_calendar_service_refresh_falls_through(c, refreshOk, buildOk) ==
    IF needs_auth(c)
    THEN IF refreshable(c)
         THEN LET b == build_service(IF refreshOk THEN refreshed(c) ELSE c, buildOk)
              IN [b EXCEPT !.made = <<ExtCall("refresh", refreshOk)>> \o b.made]
         ELSE [creds |-> c, service |-> FALSE, made |-> <<>>]
    ELSE build_service(c, buildOk)

\* The function from the loaded credentials on, given how the refresh and
\* the build would end: the credentials, whether a service is returned,
\* and the external calls made.
get_calendar_service(c, refreshOk, buildOk) ==
    IF needs_auth(c)
    THEN IF refreshable(c)
         THEN IF refreshOk
              THEN LET b == build_service(refreshed(c), buildOk)
                   IN [b EXCEPT !.made = <<ExtCall("refresh", TRUE)>> \o b.made]
              ELSE [creds |-> c, service |-> FALSE,
                    made |-> <<ExtCall("refresh", FALSE)>>]
         ELSE [creds |-> c, service |-> FALSE, made |-> <<>>]
    ELSE build_service(c, buildOk)

(***************************************************************************)
(* The body of the for loop of main().                                     *)
(***************************************************************************)
AllDayText == <<"all-day placeholder">>

WebhookOutcomes == {"ok", "http_error", "raised"}

\* line 138: event.get('start', {}).get('dateTime')
raw_start_time(event) == DictGet(DictGetOr(event, "start", <<>>), "dateTime")

\* line 146 with an absent marker taken for a mismatch
color_mismatch_strict(color_id) ==
    ~Truthy(color_id) \/ color_id[1] # TARGET_COLOR_ID

\* line 146: color_id and color_id != TARGET_COLOR_ID
color_mismatch(color_id) == Truthy(color_id) /\ color_id[1] # TARGET_COLOR_ID

\* lines 139-143 moved below the colour filter
event_step_filter_first(event) ==
    LET raw   == raw_start_time(event)
        found == extract_phone_number(Some(DictGetOr(event, "description", <<>>)))
    IN IF color_mismatch(DictGet(event, "colorId"))
       THEN [kind |-> "skip_color"]
       ELSE IF TruthyChars(raw) /\ fromisoformat(raw[1]) = None
       THEN [kind |-> "raise"]
       ELSE IF found = None THEN [kind |-> "skip_phone"]
       ELSE [kind |-> "notify", phone |-> found[1],
             msg |-> [name |-> DictGetOr(event, "summary", "No Title"),
                      time |-> IF TruthyChars(raw)
                               THEN strftime_HM(fromisoformat(raw[1])[1])
                               ELSE AllDayText]]

\* lines 132-154 and 160-161: what one iteration does with its event, up
\* to the webhook request
event_step(event) ==
    LET summary     == DictGetOr(event, "summary", "No Title")
        description == DictGetOr(event, "description", <<>>)
        color_id    == DictGet(event, "colorId")
        raw         == raw_start_time(event)
        parsed      == IF TruthyChars(raw) THEN fromisoformat(raw[1]) ELSE None
    IN IF TruthyChars(raw) /\ parsed = None THEN [kind |-> "raise"]
       ELSE LET formatted_time == IF TruthyChars(raw) THEN strftime_HM(parsed[1])
                                  ELSE AllDayText
                found == extract_phone_number(Some(description))
            IN IF color_mismatch(color_id) THEN [kind |-> "skip_color"]
               ELSE IF found = None THEN [kind |-> "skip_phone"]
               ELSE [kind |-> "notify", phone |-> found[1],
                     msg |-> [name |-> summary, time |-> formatted_time]]

\* lines 155-159 without the try: an exception of requests.get leaves the loop
webhook_exception_propagates(outcome) == outcome = "raised"

\* lines 155-159: the except clause keeps every exception of requests.get
\* inside the iteration
webhook_exception_leaves_loop(outcome) == FALSE

\* the handler catching the calendar API's errors only
handler_catches_http_only(e) == e = "HttpError"

\* line 163: except Exception
handler_catches(e) == e \in {"AttributeError", "HttpError", "ValueError", "RequestException"}

\* line 104 testing for None only
webhook_missing_none_only(url) == url = None

\* line 104: not WEBHOOK_URL
webhook_missing(url) == ~Truthy(url)

(***************************************************************************)
(* The run of main() as a state machine.                                   *)
(***************************************************************************)
envVars == <<WEBHOOK_URL, tokenFile, credsFile, tokenCreds, calendar, utc_now>>

ProgramStart ==
    /\ pc = "start"
    /\ reports = <<>>
    /\ creds = None
    /\ service = FALSE
    /\ window = None
    /\ events = <<>>
    /\ idx = 0
    /\ trace = <<>>
    /\ calls = <<>>
    /\ exc = "none"
    /\ text = None
    /\ phone = None

\* Every configuration, every state of the two secret files and of the
\* stored token, over a small calendar.
Init ==
    /\ WEBHOOK_URL \in WebhookUrls
    /\ tokenFile \in FileStates
    /\ credsFile \in FileStates
    /\ tokenCreds \in (IF tokenFile = "object" THEN TokenContents ELSE {None})
    /\ calendar \in SeqsUpTo(SmallEventPool, MaxEvents)
    /\ utc_now \in NowSamples
    /\ ProgramStart

\* lines 102-106
main_check_webhook ==
    /\ pc = "start"
    /\ pc' = IF webhook_missing(WEBHOOK_URL) THEN "done" ELSE "check"
    /\ UNCHANGED <<envVars, reports, creds, service, window, events, idx,
                   trace, calls, exc, text, phone>>

\* line 109
main_check_files ==
    /\ pc = "check"
    /\ LET r == check_files_integrity(<<tokenFile, credsFile>>)
       IN /\ reports' = r.printed
          /\ exc' = IF r.raised THEN "AttributeError" ELSE exc
          /\ pc' = IF r.raised THEN "except" ELSE "auth"
    /\ UNCHANGED <<envVars, creds, service, window, events, idx, trace,
                   calls, text, phone>>

\* lines 111-114
main_get_service ==
    /\ pc = "auth"
    /\ \E refreshOk \in BOOLEAN, buildOk \in BOOLEAN :
          LET r == get_calendar_service(load_token(tokenFile, tokenCreds),
                                        refreshOk, buildOk)
          IN /\ creds' = r.creds
             /\ service' = r.service
             /\ trace' = trace \o r.made
             /\ pc' = IF ~r.service THEN "done" ELSE "range"
    /\ UNCHANGED <<envVars, reports, window, events, idx, calls, exc, text, phone>>

\* lines 116-117
main_get_tomorrow_range ==
    /\ pc = "range"
    /\ window' = Some(get_tomorrow_range(utc_now))
    /\ pc' = "query"
    /\ UNCHANGED <<envVars, reports, creds, service, events, idx, trace,
                   calls, exc, text, phone>>

\* lines 119-129: the events query either raises or returns the calendar's
\* events of the window
main_list_events ==
    /\ pc = "query"
    /\ \E ok \in BOOLEAN :
          /\ trace' = Append(trace, ExtCall("query", ok))
          /\ IF ok
             THEN /\ events' = calendar
                  /\ exc' = exc
                  /\ IF calendar = <<>>
                     THEN pc' = "done" /\ idx' = idx
                     ELSE pc' = "loop" /\ idx' = 1
             ELSE /\ exc' = "HttpError"
                  /\ pc' = "except"
                  /\ UNCHANGED <<events, idx>>
    /\ UNCHANGED <<envVars, reports, creds, service, window, calls, text, phone>>

\* lines 131-161: one iteration of the for loop
main_process_event ==
    /\ pc = "loop"
    /\ LET step == event_step(events[idx])
           next == IF idx = Len(events) THEN "done" ELSE "loop"
       IN CASE step.kind = "raise" ->
                  /\ exc' = "ValueError"
                  /\ pc' = "except"
                  /\ UNCHANGED <<idx, trace, calls>>
            [] step.kind = "notify" ->
                  \E outcome \in WebhookOutcomes :
                     /\ calls' = Append(calls, [ev |-> idx, phone |-> step.phone,
                                                msg |-> step.msg,
                                                outcome |-> outcome])
                     /\ trace' = Append(trace, ExtCall("webhook", outcome = "ok"))
                     /\ IF webhook_exception_leaves_loop(outcome)
                        THEN /\ exc' = "RequestException"
                             /\ pc' = "except"
                             /\ idx' = idx
                        ELSE /\ exc' = exc
                             /\ pc' = next
                             /\ idx' = idx + 1
            [] OTHER ->
                  /\ pc' = next
                  /\ idx' = idx + 1
                  /\ UNCHANGED <<trace, calls, exc>>
    /\ UNCHANGED <<envVars, reports, creds, service, window, events, text, phone>>

\* lines 163-166
main_except ==
    /\ pc = "except"
    /\ pc' = IF handler_catches(exc) THEN "done" ELSE "crashed"
    /\ UNCHANGED <<envVars, reports, creds, service, window, events, idx,
                   trace, calls, exc, text, phone>>

Next ==
    \/ main_check_webhook
    \/ main_check_files
    \/ main_get_service
    \/ main_get_tomorrow_range
    \/ main_list_events
    \/ main_process_event
    \/ main_except

Spec == Init /\ [][Next]_vars

(***************************************************************************)
(* Runs with the configuration and the secrets in order, over every        *)
(* calendar of up to MaxEvents events of EventPool.                        *)
(***************************************************************************)
InitEvents ==
    /\ WEBHOOK_URL = Some("https://trigger.macrodroid.com/hook")
    /\ tokenFile = "object"
    /\ credsFile = "object"
    /\ tokenCreds = Some([valid |-> TRUE, expired |-> FALSE, refresh_token |-> TRUE])
    /\ calendar \in SeqsUpTo(EventPool, MaxEvents)
    /\ utc_now = [year |-> 2026, month |-> 11, day |-> 2, hour |-> 21,
                  minute |-> 59, second |-> 59]
    /\ ProgramStart

SpecEvents == InitEvents /\ [][Next]_vars

(***************************************************************************)
(* get_tomorrow_range at every hour of every day of three years (a leap    *)
(* year, a common year, a century year that is not a leap year).           *)
(***************************************************************************)
RangeYears == {2024, 2025, 2100}

Instants ==
    {[year |-> y, month |-> m, day |-> d, hour |-> h, minute |-> ms[1],
      second |-> ms[2]] :
        y \in RangeYears, m \in 1..12, d \in 1..31, h \in 0..23,
        ms \in {<<0, 0>>, <<59, 59>>}}

InitRange ==
    /\ WEBHOOK_URL = Some("https://trigger.macrodroid.com/hook")
    /\ tokenFile = "object"
    /\ credsFile = "object"
    /\ tokenCreds = Some([valid |-> TRUE, expired |-> FALSE, refresh_token |-> TRUE])
    /\ calendar = <<>>
    /\ utc_now \in {t \in Instants : t.day <= days_in_month(t.year, t.month)}
    /\ pc = "range"
    /\ reports = <<"valid JSON", "valid JSON">>
    /\ creds = tokenCreds
    /\ service = TRUE
    /\ window = None
    /\ events = <<>>
    /\ idx = 0
    /\ trace = <<ExtCall("build", TRUE)>>
    /\ calls = <<>>
    /\ exc = "none"
    /\ text = None
    /\ phone = None

SpecRange == InitRange /\ [][main_get_tomorrow_range]_vars

(***************************************************************************)
(* extract_phone_number called on its own, on None and on every text made  *)
(* of up to MaxTokens pieces, and on the documented examples.              *)
(***************************************************************************)
TextTokens ==
    {<<"0", "5">>, <<"2">>, <<"-">>, <<"1", "2", "3", "4", "5", "6">>,
     <<"7">>, <<"x">>}

ExampleCall ==
    <<"c", "a", "l", "l", " ", "0", "5", "2", "-", "1", "2", "3",
      "4", "5", "6", "7", " ", "p", "l", "e", "a", "s", "e">>

ExampleThanks ==
    <<"0", "5", "2", "1", "2", "3", "4", "5", "6", "7", " ", "t",
      "h", "a", "n", "k", "s">>

ExampleNearMiss == <<"0", "5", "2", "-", "1", "2", "3", "4", "5", "6">>

ExampleNoNumber ==
    <<"n", "o", " ", "n", "u", "m", "b", "e", "r", " ", "h", "e",
      "r", "e">>

Texts ==
    {Flatten(q) : q \in SeqsUpTo(TextTokens, MaxTokens)}
        \cup {ExampleCall, ExampleThanks, ExampleNearMiss, ExampleNoNumber}

InitPhone ==
    /\ WEBHOOK_URL = None
    /\ tokenFile = "missing"
    /\ credsFile = "missing"
    /\ tokenCreds = None
    /\ calendar = <<>>
    /\ utc_now = [year |-> 2026, month |-> 11, day |-> 2, hour |-> 21,
                  minute |-> 59, second |-> 59]
    /\ pc = "call"
    /\ reports = <<>>
    /\ creds = None
    /\ service = FALSE
    /\ window = None
    /\ events = <<>>
    /\ idx = 0
    /\ trace = <<>>
    /\ calls = <<>>
    /\ exc = "none"
    /\ text \in {None} \cup {Some(t) : t \in Texts}
    /\ phone = None

\* lines 78-82
call_extract_phone_number ==
    /\ pc = "call"
    /\ phone' = extract_phone_number(text)
    /\ pc' = "returned"
    /\ UNCHANGED <<envVars, reports, creds, service, window, events, idx,
                   trace, calls, exc, text>>

SpecPhone == InitPhone /\ [][call_extract_phone_number]_vars

(***************************************************************************)
(* Vocabulary of the properties, stated without the operators above.       *)
(***************************************************************************)
\* "05", one digit, an optional "-", seven digits
IsPhoneNumber(s) ==
    \/ /\ Len(s) = 10
       /\ s[1] = "0" /\ s[2] = "5"
       /\ \A i \in 3..10 : IsDigit(s[i])
    \/ /\ Len(s) = 11
       /\ s[1] = "0" /\ s[2] = "5" /\ IsDigit(s[3]) /\ s[4] = "-"
       /\ \A i \in 5..11 : IsDigit(s[i])

\* the substrings of s that start at i and have the length of a phone number
Candidates(s, i) == {SubSeq(s, i, j) : j \in {i + 9, i + 10} \cap 1..Len(s)}

PhoneStarts(s) ==
    {i \in 1..Len(s) : \E c \in Candidates(s, i) : IsPhoneNumber(c)}

\* the leftmost phone number of s, None when s holds none
FirstPhone(s) ==
    IF PhoneStarts(s) = {} THEN None
    ELSE LET i == CHOOSE a \in PhoneStarts(s) : \A b \in PhoneStarts(s) : a <= b
         IN Some(CHOOSE c \in Candidates(s, i) : IsPhoneNumber(c))

Made(name) == {i \in DOMAIN trace : trace[i].call = name}

NoEventCalls == Made("query") = {} /\ Made("webhook") = {} /\ calls = <<>>

QueryReturned == \E i \in DOMAIN trace : trace[i] = ExtCall("query", TRUE)

HasStamp(e) == "start" \in DOMAIN e /\ "dateTime" \in DOMAIN e.start

BadStamp(e) == HasStamp(e) /\ fromisoformat(e.start.dateTime) = None

PassesColour(e) == "colorId" \notin DOMAIN e \/ e.colorId = "1"

DescriptionOf(e) == IF "description" \in DOMAIN e THEN e.description ELSE <<>>

Eligible(e) == PassesColour(e) /\ FirstPhone(DescriptionOf(e)) # None

\* the request an eligible event is to produce: its phone, its title and
\* the HH:MM written in its start timestamp
ExpectedRequest(e, i) ==
    [ev |-> i,
     phone |-> FirstPhone(DescriptionOf(e))[1],
     msg |-> [name |-> IF "summary" \in DOMAIN e THEN e.summary ELSE "No Title",
              time |-> IF HasStamp(e) THEN SubSeq(e.start.dateTime, 12, 16)
                       ELSE AllDayText]]

RECURSIVE ExpectedRequests(_, _)
ExpectedRequests(evs, n) ==
    IF n = 0 THEN <<>>
    ELSE LET before == ExpectedRequests(evs, n - 1)
         IN IF Eligible(evs[n]) THEN Append(before, ExpectedRequest(evs[n], n))
            ELSE before

RequestsMade ==
    [i \in DOMAIN calls |->
        [ev |-> calls[i].ev, phone |-> calls[i].phone, msg |-> calls[i].msg]]

CallsFor(j) == {i \in DOMAIN calls : calls[i].ev = j}

FailedCall(c) == c.outcome \in {"http_error", "raised"}

(***************************************************************************)
(* Properties.                                                             *)
(***************************************************************************)

\* C1: with the webhook URL unset or empty, a run makes no external call
\* (no refresh, no service construction, no events query, no webhook
\* request), reads no secret file, and is at its start or already ended.
C1_NoCallWithoutWebhook ==
    (WEBHOOK_URL = None \/ WEBHOOK_URL = Some(""))
        => /\ trace = <<>>
           /\ calls = <<>>
           /\ reports = <<>>
           /\ pc \in {"start", "done"}

\* a run with an empty URL and a usable token has ended
C1_Witness ==
    /\ pc = "done"
    /\ WEBHOOK_URL = Some("")
    /\ tokenFile = "object"
    /\ tokenCreds # None /\ tokenCreds[1].valid
    /\ calendar # <<>>

AuthAttempted ==
    pc \notin {"start", "check", "auth"} /\ Truthy(WEBHOOK_URL)
        /\ exc # "AttributeError"

ExpiredRefreshable ==
    /\ tokenFile = "object" /\ tokenCreds # None
    /\ ~tokenCreds[1].valid /\ tokenCreds[1].expired /\ tokenCreds[1].refresh_token

UsableToken ==
    /\ tokenFile = "object" /\ tokenCreds # None
    /\ \/ tokenCreds[1].valid
       \/ tokenCreds[1].expired /\ tokenCreds[1].refresh_token

\* C2: the events query and every webhook request come after a successful
\* service construction; at most one refresh is attempted per run, exactly
\* one once authentication ran on an expired token with a refresh token;
\* after a failed refresh, a failed construction, or with credentials that
\* are absent or invalid and not refreshable, no query and no webhook
\* request is made.
C2_AuthAllOrNothing ==
    /\ \A i \in Made("query") \cup Made("webhook") :
          service /\ \E k \in 1..(i - 1) : trace[k] = ExtCall("build", TRUE)
    /\ Cardinality(Made("refresh")) <= 1
    /\ (AuthAttempted /\ ExpiredRefreshable) => Cardinality(Made("refresh")) = 1
    /\ (AuthAttempted /\ ~ExpiredRefreshable) => Made("refresh") = {}
    /\ (\/ \E i \in DOMAIN trace : trace[i] = ExtCall("refresh", FALSE)
        \/ \E i \in DOMAIN trace : trace[i] = ExtCall("build", FALSE)
        \/ ~UsableToken) => NoEventCalls

\* a run whose single refresh failed has ended
C2_Witness ==
    /\ pc = "done"
    /\ ExpiredRefreshable
    /\ trace = <<ExtCall("refresh", FALSE)>>
    /\ calendar # <<>>

\* C3 as amended: after a failed webhook request for event i, every later
\* event j that passes the colour filter and holds a phone number gets its
\* own request, provided the start timestamps of the events after i up to
\* and including j are absent or parseable; no event gets two requests.
C3_FailureIsolated ==
    (pc = "done" /\ QueryReturned) =>
        /\ \A i \in DOMAIN calls : \A j \in (calls[i].ev + 1)..Len(events) :
              (/\ FailedCall(calls[i])
               /\ Eligible(events[j])
               /\ \A k \in (calls[i].ev + 1)..j : ~BadStamp(events[k]))
                  => CallsFor(j) # {}
        /\ \A j \in 1..Len(events) : Cardinality(CallsFor(j)) <= 1

\* C3 as stated: after a failed webhook request for event i, every later
\* event j that passes the colour filter and holds a phone number gets its
\* own request; no event gets two requests.
C3_Original ==
    (pc = "done" /\ QueryReturned) =>
        /\ \A i \in DOMAIN calls : \A j \in (calls[i].ev + 1)..Len(events) :
              (FailedCall(calls[i]) /\ Eligible(events[j])) => CallsFor(j) # {}
        /\ \A j \in 1..Len(events) : Cardinality(CallsFor(j)) <= 1

\* the request of the first event raised and the second event got its own
C3_Witness ==
    /\ pc = "done"
    /\ Len(calls) = 2
    /\ calls[1].ev = 1 /\ calls[1].outcome = "raised"
    /\ calls[2].ev = 2

MalformedFile(f) == f \in {"missing", "empty", "garbage"}

\* C4 as amended: when the token file is missing, empty or not valid JSON,
\* the run makes no events query and sends no notification.
C4_TokenFileTerminal == MalformedFile(tokenFile) => NoEventCalls /\ events = <<>>

\* C4 as stated: when either secret file is missing, empty or not valid
\* JSON, the run makes no events query and sends no notification.
C4_Original ==
    (MalformedFile(tokenFile) \/ MalformedFile(credsFile))
        => NoEventCalls /\ events = <<>>

\* a run over an unparseable token file ended after its file check
C4_Witness ==
    /\ pc = "done"
    /\ tokenFile = "garbage"
    /\ credsFile = "object"
    /\ Len(reports) = 2
    /\ calendar # <<>>

\* C5: the secret-file check never raises: whatever the two files hold, it
\* reports on both and authentication is attempted next.
C5_CheckNeverRaises ==
    /\ exc # "AttributeError"
    /\ (Truthy(WEBHOOK_URL) /\ pc \notin {"start", "check"}) => Len(reports) = 2

AllStampsWellFormed == \A i \in DOMAIN events : ~BadStamp(events[i])

\* C6: when every returned event has an absent or well-formed start
\* timestamp, the webhook requests of the finished run are exactly those of
\* the events without a colour marker or with marker "1" that hold a phone
\* number, in the order returned, one each, with the event's phone, title
\* and HH:MM.
C6_RequestsAreFilteredEvents ==
    (pc = "done" /\ QueryReturned /\ AllStampsWellFormed)
        => RequestsMade = ExpectedRequests(events, Len(events))

\* the documented scenario (marker "1", 052-7654321, "Dana", 14:30) followed
\* by an event with marker "2" that holds a phone number
C6_Witness ==
    /\ pc = "done"
    /\ Len(events) = 2
    /\ "colorId" \in DOMAIN events[1] /\ events[1].colorId = "1"
    /\ "colorId" \in DOMAIN events[2] /\ events[2].colorId = "2"
    /\ FirstPhone(DescriptionOf(events[2])) # None
    /\ Len(calls) = 1
    /\ calls[1].phone = <<"0", "5", "2", "-", "7", "6", "5", "4", "3", "2", "1">>
    /\ calls[1].msg = [name |-> "Dana", time |-> <<"1", "4", ":", "3", "0">>]

\* C7: extract_phone_number returns the leftmost substring that is "05", a
\* digit, an optional "-" and seven digits, and None for None, for the
\* empty text and for a text without such a substring; the four documented
\* examples give the documented results.
C7_LeftmostPhone ==
    pc = "returned" =>
        /\ phone = (IF text = None THEN None ELSE FirstPhone(text[1]))
        /\ text = Some(ExampleCall)
              => phone = Some(<<"0", "5", "2", "-", "1", "2", "3", "4", "5", "6", "7">>)
        /\ text = Some(ExampleThanks)
              => phone = Some(<<"0", "5", "2", "1", "2", "3", "4", "5", "6", "7">>)
        /\ text \in {Some(ExampleNearMiss), Some(ExampleNoNumber), Some(<<>>), None}
              => phone = None

\* "call 052-1234567 please" was searched and a number came back
C7_Witness ==
    /\ pc = "returned"
    /\ text = Some(ExampleCall)
    /\ phone # None

\* the day after d in the civil calendar
CivilNextDay(d) ==
    IF d.day < days_in_month(d.year, d.month)
    THEN [year |-> d.year, month |-> d.month, day |-> d.day + 1]
    ELSE IF d.month < 12
    THEN [year |-> d.year, month |-> d.month + 1, day |-> 1]
    ELSE [year |-> d.year + 1, month |-> 1, day |-> 1]

\* (UTC date of now + 2 hours) + 1 day
TargetDate(now) ==
    LET today == [year |-> now.year, month |-> now.month, day |-> now.day]
    IN IF now.hour >= 22 THEN CivilNextDay(CivilNextDay(today))
       ELSE CivilNextDay(today)

StampDate(s) ==
    [year |-> ParseInt(SubSeq(s, 1, 4)), month |-> ParseInt(SubSeq(s, 6, 7)),
     day |-> ParseInt(SubSeq(s, 9, 10))]

\* C8: time_min and time_max carry the same date, the UTC date of
\* now + 2 hours plus one day, at 00:00:00Z and 23:59:59Z.
C8_TomorrowRange ==
    window # None =>
        LET lo == window[1].time_min
            hi == window[1].time_max
        IN /\ Len(lo) = 20 /\ Len(hi) = 20
           /\ SubSeq(lo, 1, 10) = SubSeq(hi, 1, 10)
           /\ lo[5] = "-" /\ lo[8] = "-"
           /\ AllDigits(SubSeq(lo, 1, 4)) /\ AllDigits(SubSeq(lo, 6, 7))
           /\ AllDigits(SubSeq(lo, 9, 10))
           /\ StampDate(lo) = TargetDate(utc_now)
           /\ SubSeq(lo, 11, 20) = <<"T", "0", "0", ":", "0", "0", ":", "0", "0", "Z">>
           /\ SubSeq(hi, 11, 20) = <<"T", "2", "3", ":", "5", "9", ":", "5", "9", "Z">>

\* the window computed at 22:00 UTC of a 31 December lies in the next year
C8_Witness ==
    /\ window # None
    /\ utc_now.month = 12 /\ utc_now.day = 31 /\ utc_now.hour = 22
    /\ StampDate(window[1].time_min) =
          [year |-> utc_now.year + 1, month |-> 1, day |-> 2]

HandlerMakesNoCall ==
    pc \in {"except", "done"} => (trace' = trace /\ calls' = calls)

\* an upper bound on the steps a run has left
StepsLeft ==
    CASE pc = "start"  -> 6 + Len(calendar)
      [] pc = "check"  -> 5 + Len(calendar)
      [] pc = "auth"   -> 4 + Len(calendar)
      [] pc = "range"  -> 3 + Len(calendar)
      [] pc = "query"  -> 2 + Len(calendar)
      [] pc = "loop"   -> 2 + Len(events) - idx
      [] pc = "except" -> 1
      [] OTHER         -> 0

\* A run that has not ended can take its next step.  (The step that
\* computes the window has no condition but its position.)
RunCanStep ==
    \/ pc = "range"
    \/ ENABLED (main_check_webhook \/ main_check_files \/ main_get_service
                  \/ main_list_events \/ main_process_event \/ main_except)

\* C9: every run ends in the one terminal state: no exception escapes
\* main(), a run that has not ended can take a step, every step brings the
\* end nearer, and once an exception has reached the top-level handler no
\* further external call is made.
C9_AlwaysEndsTheSameWay ==
    /\ [](pc # "crashed" /\ StepsLeft >= 0 /\ (pc = "done" \/ RunCanStep))
    /\ [][StepsLeft' < StepsLeft /\ HandlerMakesNoCall]_vars

\* a run that sent a notification and then hit an unparseable timestamp
\* has ended
C9_Witness ==
    /\ pc = "done"
    /\ exc = "ValueError"
    /\ calls # <<>>

FirstBadStamp ==
    CHOOSE k \in DOMAIN events :
        BadStamp(events[k]) /\ \A m \in 1..(k - 1) : ~BadStamp(events[m])

\* C10: when a returned event has a start timestamp that cannot be parsed,
\* the run ends at the first such event: no webhook request for it or for
\* any later event, whatever its colour marker, and the requests for the
\* events before it are the ones they are due.
C10_BadStampEndsRun ==
    (pc = "done" /\ QueryReturned /\ ~AllStampsWellFormed) =>
        /\ exc = "ValueError"
        /\ \A i \in DOMAIN calls : calls[i].ev < FirstBadStamp
        /\ RequestsMade = ExpectedRequests(events, FirstBadStamp - 1)

\* an event with marker "2" and an unparseable timestamp came first, and
\* the event after it, due a notification, got none
C10_Witness ==
    /\ pc = "done"
    /\ Len(events) = 2
    /\ BadStamp(events[1])
    /\ "colorId" \in DOMAIN events[1] /\ events[1].colorId = "2"
    /\ Eligible(events[2]) /\ ~BadStamp(events[2])
    /\ calls = <<>>

====
